---- MODULE Spec2Model ----
(***************************************************************************)
(* The Tiko integration: the API client (tiko_api.py), the polling         *)
(* coordinator (coordinator.py), the config-entry setup (__init__.py) and  *)
(* the climate platform (climate.py), as one state machine.  The remote    *)
(* service is the environment: every reply is drawn from a bounded set.    *)
(***************************************************************************)
EXTENDS Integers, Sequences, FiniteSets, TLC

(* ------------------------------ bounds --------------------------------- *)
\* refresh cycles run by one coordinator
MaxCycles == 2

\* session tokens the service hands out (0 is kept for "no token")
Tokens == {1, 2}

(* --------------------------- error messages ---------------------------- *)
\* A message text is modelled by the set of the substrings the code tests it
\* for: "RL" = "Limite de taux atteinte", "IC" = "Invalid credentials",
\* "AF" = "Authentication failed".
Markers == {"RL", "IC", "AF"}
Messages == SUBSET Markers

\* `needle in text`
Contains(text, needle) == needle \in text

NoText == {}
NoErr == [type |-> "none", text |-> NoText]
Err(type, text) == [type |-> type, text |-> text]

\* str(err) of a raised exception: the message it was built with
StrOf(err) == err.text

(* ------------------------------- replies ------------------------------- *)
\* What the service answers to one request.
\*   net     the connection delivered a response (FALSE: aiohttp.ClientError)
\*   ok2xx   raise_for_status() passes
\*   json    Content-Type contains application/json
\*   text    reason phrase / connection error / content type, as text
\*   hasErrors, errors   the body's "errors" key and its messages
\*   shape   which of the expected keys the body's data carries
\*   items   rooms or devices of the body
\*   token, props   logIn.token and logIn.user.properties (their ids)
\* the room and device lists the service may report: room 1 at two
\* temperatures, room 2, device 7; one list names room 1 twice
Room(i, t) == [id |-> i, temp |-> t]
Device(i) == [id |-> i, temp |-> 0]
RoomLists ==
    {<<>>, <<Room(1, 19)>>, <<Room(1, 21)>>, <<Room(1, 19), Room(2, 19)>>,
     <<Room(1, 19), Room(1, 21)>>}
DeviceLists == {<<>>, <<Device(7)>>}

SeqsUpTo(S, n) == UNION {[1..k -> S] : k \in 0..n}

ErrLists == SeqsUpTo(Messages, 2)
\* the error lists the service sends while the coordinator runs
ShortErrLists == {<<>>, <<{"RL"}>>, <<{"IC"}>>, <<{"AF"}>>}
PropLists == {<<>>, <<1>>, <<1, 2>>}

\* The text of a failure below the application level matters to the code
\* only through the "Authentication failed" test: a 401 may carry it.
StatusTexts == {NoText, {"AF"}}

BaseReply ==
    [net |-> TRUE, ok2xx |-> TRUE, json |-> TRUE, text |-> NoText,
     hasErrors |-> FALSE, errors |-> <<>>, shape |-> "nodata",
     items |-> <<>>, token |-> 0, props |-> <<>>]

\* replies that fail below the application level
TransportReplies ==
    {[BaseReply EXCEPT !.net = FALSE], [BaseReply EXCEPT !.json = FALSE]}
    \cup {[BaseReply EXCEPT !.ok2xx = FALSE, !.text = t] : t \in StatusTexts}

\* JSON replies carrying an application-level error list
ErrorRepliesOf(lists) ==
    {[BaseReply EXCEPT !.hasErrors = TRUE, !.errors = e] : e \in lists}
ErrorReplies == ErrorRepliesOf(ShortErrLists)

\* JSON replies to GetRooms / GetDevices without an error list
FetchShapes == {"nodata", "noproperty", "nocollection"}
MalformedReplies == {[BaseReply EXCEPT !.shape = s] : s \in FetchShapes}
RoomsDataReplies ==
    {[BaseReply EXCEPT !.shape = "ok", !.items = l] : l \in RoomLists}
DevicesDataReplies ==
    {[BaseReply EXCEPT !.shape = "ok", !.items = l] : l \in DeviceLists}

\* JSON replies to LogIn without an error list
LoginDataReplies ==
    {[BaseReply EXCEPT !.shape = "nologin"]}
    \cup {[BaseReply EXCEPT !.shape = "login", !.token = t, !.props = p] :
            t \in Tokens, p \in PropLists}

\* JSON replies to a command
AckReplies == {[BaseReply EXCEPT !.shape = "ok"]}

RoomsReplies ==
    TransportReplies \cup ErrorReplies \cup MalformedReplies \cup RoomsDataReplies
DevicesReplies ==
    TransportReplies \cup ErrorReplies \cup MalformedReplies \cup DevicesDataReplies
LoginReplies == TransportReplies \cup ErrorReplies \cup LoginDataReplies
\* to a command: done, a 401 for an expired token, an application error
CommandReplies ==
    AckReplies
    \cup {[BaseReply EXCEPT !.ok2xx = FALSE, !.text = {"AF"}]}
    \cup ErrorRepliesOf({<<{"RL"}>>})
PrimingReplies == TransportReplies \cup AckReplies
\* every reply shape, with longer error lists, error lists beside data and
\* error lists in replies that fail below the application level
AllReplies ==
    RoomsReplies \cup DevicesReplies \cup LoginReplies
    \cup ErrorRepliesOf(ErrLists)
    \cup {[r EXCEPT !.ok2xx = FALSE] : r \in ErrorReplies}
    \cup {[r EXCEPT !.json = FALSE] : r \in ErrorReplies}
    \cup {[r EXCEPT !.shape = "ok"] : r \in ErrorReplies}

(* ------------------------- TikoAPI._make_request ----------------------- *)
\* Mutant: the credentials test placed before the rate-limit test.
ClassifyCredentialsFirst(error_msg) ==
    IF Contains(error_msg, "IC") THEN Err("TikoAuthenticationError", error_msg)
    ELSE IF Contains(error_msg, "RL") THEN Err("TikoRateLimitError", error_msg)
    ELSE Err("ClientError", error_msg)

\* the exception raised for the first message of an error list
Classify(error_msg) ==
    IF Contains(error_msg, "RL") THEN Err("TikoRateLimitError", error_msg)
    ELSE IF Contains(error_msg, "IC") THEN Err("TikoAuthenticationError", error_msg)
    ELSE Err("ClientError", error_msg)

\* _make_request on one reply: [ok, err, result]; result is the decoded body,
\* or the empty dict for the priming GET.
Raised(err) == [ok |-> FALSE, err |-> err, result |-> BaseReply]
Returned(result) == [ok |-> TRUE, err |-> NoErr, result |-> result]

MakeRequest(reply, priming) ==
    IF ~reply.net THEN Raised(Err("ClientConnectionError", reply.text))
    ELSE IF ~reply.ok2xx THEN Raised(Err("ClientResponseError", reply.text))
    ELSE IF priming THEN Returned(BaseReply)
    ELSE IF ~reply.json THEN Raised(Err("ClientError", reply.text))
    ELSE IF reply.hasErrors
         THEN IF reply.errors = <<>>
              THEN Raised(Err("IndexError", NoText))
              ELSE Raised(Classify(reply.errors[1]))
         ELSE Returned(reply)

(* ---------------------------- TikoAPI state ---------------------------- *)
\* 0 stands for "attribute not set" (token, user_id, property_id) and for
\* "no Authorization header".
FreshAPI == [token |-> 0, user_id |-> 0, property_id |-> 0, authorization |-> 0]

\* hasattr(self.api, 'token')
HasToken(a) == a.token # 0

\* authenticate() after the login POST returned `body`: the attributes are
\* assigned one by one, so an exception leaves the earlier ones assigned.
LoginApply(a, body) ==
    IF body.shape # "login"
    THEN [api |-> a, err |-> Err("TikoAuthenticationError", {"AF"})]
    ELSE LET a1 == [a EXCEPT !.token = body.token, !.user_id = 1]
         IN  IF body.props = <<>>
             THEN [api |-> a1, err |-> Err("IndexError", NoText)]
             ELSE [api |-> [a1 EXCEPT !.property_id = Head(body.props),
                                      !.authorization = body.token],
                   err |-> NoErr]

(* ------------------------- coordinator: snapshot ----------------------- *)
EmptyMap == [k \in {} |-> 0]

\* Mutant: the items keyed by their position in the reply.
ToMapByIndex(items) ==
    [k \in {ToString(i) : i \in DOMAIN items} |->
        items[CHOOSE i \in DOMAIN items : ToString(i) = k]]

\* {str(item["id"]): item for item in items}: a later item replaces an
\* earlier one with the same id
RECURSIVE ToMap(_)
ToMap(items) ==
    IF items = <<>> THEN EmptyMap
    ELSE LET n == Len(items)
             m == ToMap(SubSeq(items, 1, n - 1))
             key == ToString(items[n].id)
         IN  [k \in DOMAIN m \cup {key} |-> IF k = key THEN items[n] ELSE m[k]]

\* `"data" in r and "property" in r["data"]`
WellNested(r) == r.shape \in {"ok", "nocollection"}

\* The processing of the two replies, in the order of the code: rooms are
\* checked and assigned, then devices are checked and assigned.
ProcessReplies(rm, dv, rr, dr) ==
    IF ~WellNested(rr)
    THEN [rooms |-> rm, devices |-> dv, stage |-> "rooms_shape",
          err |-> Err("UpdateFailed", NoText)]
    ELSE IF rr.shape = "nocollection"
    THEN [rooms |-> rm, devices |-> dv, stage |-> "rooms_shape",
          err |-> Err("KeyError", NoText)]
    ELSE LET rm1 == ToMap(rr.items)
         IN  IF ~WellNested(dr)
             THEN [rooms |-> rm1, devices |-> dv, stage |-> "devices_shape",
                   err |-> Err("UpdateFailed", NoText)]
             ELSE IF dr.shape = "nocollection"
             THEN [rooms |-> rm1, devices |-> dv, stage |-> "devices_shape",
                   err |-> Err("KeyError", NoText)]
             ELSE [rooms |-> rm1, devices |-> ToMap(dr.items),
                   stage |-> "none", err |-> NoErr]

\* Mutant: the text tested for is the one of a rejected login.
TokenExpiredWrongText(err) == Contains(StrOf(err), "IC")

\* `if "Authentication failed" not in str(err): raise` lets through the
\* exceptions whose text says the token expired.
TokenExpired(err) == Contains(StrOf(err), "AF")

\* Mutant: the inner try/except around the first authenticate is missing.
AuthFailureOutcomePlain(phase) == "UpdateFailed"

\* Mutant: every failed authenticate is reported as ConfigEntryAuthFailed.
AuthFailureOutcomeAlwaysAuth(phase) == "ConfigEntryAuthFailed"

\* Mutant: the outer handler is missing, the exception of the second
\* authenticate leaves the cycle as it is.
AuthFailureOutcomeEscapes(phase) ==
    IF phase = "initial" THEN "ConfigEntryAuthFailed" ELSE "Exception"

\* The exception a failed authenticate leaves the cycle with: the one
\* before the fetches becomes ConfigEntryAuthFailed, every other exception
\* of the cycle becomes UpdateFailed.
AuthFailureOutcome(phase) ==
    IF phase = "initial" THEN "ConfigEntryAuthFailed" ELSE "UpdateFailed"

(* ------------------------------- const.py ----------------------------- *)
\* Python's None, as the result of dict.get() on a missing key
None == "None"

MODE_NORMAL == "on"
MODE_OFF == "off"
MODE_FROST == "frost"
MODE_ABSENCE == "absence"

\* A dict literal or comprehension: the (key, value) pairs in the order they
\* are inserted; a later pair replaces an earlier one with the same key.
RECURSIVE DictOf(_)
DictOf(items) ==
    IF items = <<>> THEN [k \in {} |-> None]
    ELSE LET n == Len(items)
             d == DictOf(SubSeq(items, 1, n - 1))
         IN  [k \in DOMAIN d \cup {items[n][1]} |->
                 IF k = items[n][1] THEN items[n][2] ELSE d[k]]

\* d.get(key)
Get(d, key) == IF key \in DOMAIN d THEN d[key] ELSE None

\* HA_MODE_MAP.items(), in insertion order
HA_MODE_ITEMS ==
    << <<MODE_NORMAL, "heat">>, <<MODE_OFF, "off">>,
       <<MODE_FROST, "eco">>, <<MODE_ABSENCE, "away">> >>

HA_MODE_MAP == DictOf(HA_MODE_ITEMS)

\* Mutant: the inverse written by hand, with the two presets exchanged.
TIKO_MODE_MAP_Exchanged ==
    DictOf(<< <<"heat", MODE_NORMAL>>, <<"off", MODE_OFF>>,
              <<"eco", MODE_ABSENCE>>, <<"away", MODE_FROST>> >>)

\* {v: k for k, v in HA_MODE_MAP.items()}
TIKO_MODE_MAP ==
    DictOf([i \in DOMAIN HA_MODE_ITEMS |->
               <<HA_MODE_ITEMS[i][2], HA_MODE_ITEMS[i][1]>>])

\* what Home Assistant may pass to the entity: HVACMode values (the entity
\* announces heat and off) and the announced presets
HVACModes == {"off", "heat", "cool", "auto"}
PresetModes == {"none", "eco", "away"}

(* ------------------------------- state --------------------------------- *)
VARIABLES
    api,            \* TikoAPI: token, user_id, property_id, Authorization header
    rooms,          \* coordinator.rooms
    devices,        \* coordinator.devices
    registered,     \* hass.data[DOMAIN] holds the coordinator
    entities,       \* room ids of the TikoClimate entities created
    setup,          \* position of async_setup_entry / the config entry
    pc,             \* position of _async_update_data
    authPhase,      \* which authenticate() of the cycle is running
    attempt,        \* 1: first gather, 2: gather after the new login
    roomsTask,      \* get_rooms() of the awaited gather
    devicesTask,    \* get_devices() of the awaited gather
    outcome,        \* how the cycle ended
    failStage,      \* where the cycle failed
    failErr,        \* the exception that made it fail
    stats,          \* calls made by the cycle
    sent,           \* the last request put on the wire
    lastAuth,       \* the last authenticate(): session before, result
    cycleNo,        \* cycles started by this coordinator
    roomsCycle,     \* the cycle that assigned coordinator.rooms
    devicesCycle,   \* the cycle that assigned coordinator.devices
    startRooms,     \* coordinator.rooms when the cycle started
    startDevices,   \* coordinator.devices when the cycle started
    startToken,     \* the client's token when the cycle started
    prevOutcome,    \* how the previous cycle ended
    prevReplies,    \* the rooms and devices it was answered, if it succeeded
    cmdPc,          \* position of set_temperature / set_mode
    cmd,            \* the command: requests sent, async_request_refresh() called, result
    mrReply,        \* _make_request alone: the reply,
    mrPriming,      \*   whether it is the priming GET,
    mrOut,          \*   and what _make_request made of it
    call,           \* the last service call handled by a TikoClimate entity
    modeSent,       \* the mode it passed to coordinator.set_mode
    flowPc,         \* position of ConfigFlow._test_credentials
    flowApi,        \* the TikoAPI it built
    flowReply,      \* the last reply it was given
    flowResult      \* the (success, error) it returned

apiVars == <<api>>
snapVars == <<rooms, devices, roomsCycle, devicesCycle>>
hassVars == <<registered, entities, setup>>
ctlVars == <<pc, authPhase, attempt, roomsTask, devicesTask, outcome,
             failStage, failErr, stats, sent, lastAuth>>
startVars == <<cycleNo, startRooms, startDevices, startToken, prevOutcome,
              prevReplies>>
cmdVars == <<cmdPc, cmd>>
mrVars == <<mrReply, mrPriming, mrOut>>
climateVars == <<call, modeSent>>
flowVars == <<flowPc, flowApi, flowReply, flowResult>>

vars == <<api, rooms, devices, roomsCycle, devicesCycle, registered, entities,
          setup, pc, authPhase, attempt, roomsTask, devicesTask,
          outcome, failStage, failErr, stats, sent, lastAuth, cycleNo,
          startRooms, startDevices, startToken, prevOutcome, prevReplies,
          cmdPc, cmd,
          mrReply, mrPriming, mrOut, call, modeSent,
          flowPc, flowApi, flowReply, flowResult>>

NoTask == [st |-> "none", shape |-> "nodata", items |-> <<>>]
InFlight == [st |-> "inflight", shape |-> "nodata", items |-> <<>>]
Done(body) == [st |-> "ok", shape |-> body.shape, items |-> body.items]

NoStats == [authCalls |-> 0, reauthCalls |-> 0, roomsCalls |-> 0,
            devicesCalls |-> 0, firstErr |-> NoErr]
NoSent == [op |-> "none", auth |-> 0, token |-> 0]
Wire(op, a) == [op |-> op, auth |-> a.authorization, token |-> a.token]
NoAuth == [done |-> FALSE, before |-> FreshAPI, zeroProps |-> FALSE]
NoCmd == [sends |-> 0, refreshed |-> FALSE, callOk |-> FALSE, err |-> NoErr]
NoReplies == [rooms |-> <<>>, devices |-> <<>>]
NoResult == [success |-> FALSE, error |-> None]
NoCall == [handler |-> "none", arg |-> None]

\* TikoUpdateCoordinator.__init__ and TikoAPI.__init__; no config entry is
\* set up yet.
Init ==
    /\ api = FreshAPI
    /\ rooms = EmptyMap /\ devices = EmptyMap
    /\ roomsCycle = 0 /\ devicesCycle = 0
    /\ registered = FALSE /\ entities = {} /\ setup = "not_loaded"
    /\ pc = "idle" /\ authPhase = "none" /\ attempt = 1
    /\ roomsTask = NoTask /\ devicesTask = NoTask
    /\ outcome = "none" /\ failStage = "none" /\ failErr = NoErr
    /\ stats = NoStats /\ sent = NoSent /\ lastAuth = NoAuth
    /\ cycleNo = 0 /\ startRooms = EmptyMap /\ startDevices = EmptyMap
    /\ startToken = 0
    /\ prevOutcome = "none" /\ prevReplies = NoReplies
    /\ cmdPc = "idle" /\ cmd = NoCmd
    /\ mrReply = BaseReply /\ mrPriming = FALSE /\ mrOut = Returned(BaseReply)
    /\ call = NoCall /\ modeSent = None
    /\ flowPc = "idle" /\ flowApi = FreshAPI
    /\ flowReply = BaseReply /\ flowResult = NoResult

(* ----------------------- _async_update_data: steps --------------------- *)
\* Mutant: the maps are reset when the cycle fails.
RaiseFromCycleClearing(outc, stage, err, rm, dv) ==
    /\ pc' = "done"
    /\ authPhase' = "none"
    /\ outcome' = outc /\ failStage' = stage /\ failErr' = err
    /\ rooms' = EmptyMap /\ devices' = EmptyMap

\* The cycle ends by raising: `raise ConfigEntryAuthFailed` or
\* `raise UpdateFailed(...)`.  The handlers assign nothing: the maps stay
\* as the code before the raise left them (rm, dv).
RaiseFromCycle(outc, stage, err, rm, dv) ==
    /\ pc' = "done"
    /\ authPhase' = "none"
    /\ outcome' = outc /\ failStage' = stage /\ failErr' = err
    /\ rooms' = rm /\ devices' = dv

\* `return {"rooms": self.rooms, "devices": self.devices}`
ReturnFromCycle(rm, dv) ==
    /\ pc' = "done"
    /\ authPhase' = "none"
    /\ outcome' = "success" /\ failStage' = "none" /\ failErr' = NoErr
    /\ rooms' = rm /\ devices' = dv

\* `await self.api.authenticate()` starts with client state `a`: the priming
\* GET goes out with the client's current headers.
BeginAuthenticate(a, phase, st) ==
    /\ pc' = "auth_get"
    /\ authPhase' = phase
    /\ outcome' = "none" /\ failStage' = "none" /\ failErr' = NoErr
    /\ stats' = [st EXCEPT !.authCalls = @ + 1,
                           !.reauthCalls = @ + (IF phase = "reauth" THEN 1 ELSE 0)]
    /\ sent' = Wire("GET", a)
    /\ lastAuth' = [NoAuth EXCEPT !.before = a]

\* asyncio.gather(get_rooms(), get_devices()) starts with client state `a`.
\* Building a request reads self.property_id: without it the call raises
\* AttributeError before anything is sent.
BeginFetch(a, att, st, rm, dv) ==
    LET st1 == [st EXCEPT !.roomsCalls = @ + 1, !.devicesCalls = @ + 1]
    IN  /\ attempt' = att
        /\ IF a.property_id = 0
           THEN /\ RaiseFromCycle("UpdateFailed",
                                  IF att = 1 THEN "fetch1" ELSE "fetch2",
                                  Err("AttributeError", NoText), rm, dv)
                /\ roomsTask' = [NoTask EXCEPT !.st = "raised"]
                /\ devicesTask' = [NoTask EXCEPT !.st = "raised"]
                /\ stats' = [st1 EXCEPT !.firstErr =
                               IF att = 1 THEN Err("AttributeError", NoText) ELSE @]
                /\ sent' = sent
           ELSE /\ pc' = "fetching"
                /\ authPhase' = "none"
                /\ roomsTask' = InFlight /\ devicesTask' = InFlight
                /\ outcome' = "none" /\ failStage' = "none" /\ failErr' = NoErr
                /\ rooms' = rm /\ devices' = dv
                /\ stats' = st1
                /\ sent' = Wire("GetDevices", a)

\* Entry of _async_update_data on a coordinator whose client is `a` and
\* whose maps are rm, dv; prev is how its previous cycle ended, and prevR
\* what that cycle was answered.
EnterCycle(a, rm, dv, prev, prevR, n) ==
    /\ cycleNo' = n
    /\ startRooms' = rm /\ startDevices' = dv
    /\ startToken' = a.token
    /\ prevOutcome' = prev /\ prevReplies' = prevR
    /\ IF ~HasToken(a)
       THEN /\ BeginAuthenticate(a, "initial", NoStats)
            /\ attempt' = 1
            /\ roomsTask' = NoTask /\ devicesTask' = NoTask
            /\ rooms' = rm /\ devices' = dv
       ELSE /\ BeginFetch(a, 1, NoStats, rm, dv)
            /\ lastAuth' = NoAuth

\* The priming GET of authenticate() is answered.
AuthGetReply ==
    /\ pc = "auth_get"
    /\ \E reply \in PrimingReplies :
         LET out == MakeRequest(reply, TRUE)
         IN  IF out.ok
             THEN /\ pc' = "auth_post"
                  /\ sent' = Wire("LogIn", api)
                  /\ UNCHANGED <<authPhase, outcome, failStage, failErr,
                                 rooms, devices, lastAuth>>
             ELSE /\ RaiseFromCycle(AuthFailureOutcome(authPhase),
                                    IF authPhase = "initial" THEN "auth" ELSE "reauth",
                                    out.err, rooms, devices)
                  /\ lastAuth' = [lastAuth EXCEPT !.done = TRUE]
                  /\ sent' = sent
    /\ UNCHANGED <<api, roomsCycle, devicesCycle, hassVars, attempt, roomsTask,
                   devicesTask, stats, startVars, cmdVars, mrVars, climateVars, flowVars>>

\* The login POST of authenticate() is answered; on success the cycle goes
\* on to the gather.
AuthPostReply ==
    /\ pc = "auth_post"
    /\ \E reply \in LoginReplies :
         LET out == MakeRequest(reply, FALSE)
             la == LoginApply(api, out.result)
             stage == IF authPhase = "initial" THEN "auth" ELSE "reauth"
         IN  IF ~out.ok
             THEN /\ RaiseFromCycle(AuthFailureOutcome(authPhase), stage,
                                    out.err, rooms, devices)
                  /\ lastAuth' = [lastAuth EXCEPT !.done = TRUE]
                  /\ UNCHANGED <<api, attempt, roomsTask, devicesTask, stats, sent>>
             ELSE /\ api' = la.api
                  /\ lastAuth' = [lastAuth EXCEPT
                                    !.done = TRUE,
                                    !.zeroProps = (out.result.shape = "login"
                                                   /\ out.result.props = <<>>)]
                  /\ IF la.err # NoErr
                     THEN /\ RaiseFromCycle(AuthFailureOutcome(authPhase), stage,
                                            la.err, rooms, devices)
                          /\ UNCHANGED <<attempt, roomsTask, devicesTask, stats, sent>>
                     ELSE BeginFetch(la.api, IF authPhase = "initial" THEN 1 ELSE 2,
                                     stats, rooms, devices)
    /\ UNCHANGED <<roomsCycle, devicesCycle, hassVars, startVars,
                   cmdVars, mrVars, climateVars, flowVars>>

\* Mutant: the recovery from an expired token is tried a second time.
GatherRaisesAgain(err, mine, other) ==
    /\ roomsTask' = IF mine = "rooms" THEN [NoTask EXCEPT !.st = "raised"]
                    ELSE IF other.st = "inflight"
                    THEN [other EXCEPT !.st = "abandoned"] ELSE other
    /\ devicesTask' = IF mine = "devices" THEN [NoTask EXCEPT !.st = "raised"]
                      ELSE IF other.st = "inflight"
                      THEN [other EXCEPT !.st = "abandoned"] ELSE other
    /\ IF stats.reauthCalls < 2 /\ TokenExpired(err)
       THEN /\ BeginAuthenticate(api, "reauth", [stats EXCEPT !.firstErr = err])
            /\ UNCHANGED <<rooms, devices>>
       ELSE /\ RaiseFromCycle("UpdateFailed",
                              IF attempt = 1 THEN "fetch1" ELSE "fetch2",
                              err, rooms, devices)
            /\ stats' = [stats EXCEPT !.firstErr = IF attempt = 1 THEN err ELSE @]
            /\ UNCHANGED <<sent, lastAuth>>
    /\ UNCHANGED <<api, attempt, roomsCycle, devicesCycle>>

\* The awaited gather raises `err`, the first exception of its two fetches;
\* `mine` is the fetch that raised, `other` the task record of the other
\* one, which is not cancelled: if still in flight it goes on, abandoned.
GatherRaises(err, mine, other) ==
    /\ roomsTask' = IF mine = "rooms" THEN [NoTask EXCEPT !.st = "raised"]
                    ELSE IF other.st = "inflight"
                    THEN [other EXCEPT !.st = "abandoned"] ELSE other
    /\ devicesTask' = IF mine = "devices" THEN [NoTask EXCEPT !.st = "raised"]
                      ELSE IF other.st = "inflight"
                      THEN [other EXCEPT !.st = "abandoned"] ELSE other
    /\ IF attempt = 1 /\ TokenExpired(err)
       THEN /\ BeginAuthenticate(api, "reauth", [stats EXCEPT !.firstErr = err])
            /\ UNCHANGED <<rooms, devices>>
       ELSE /\ RaiseFromCycle("UpdateFailed",
                              IF attempt = 1 THEN "fetch1" ELSE "fetch2",
                              err, rooms, devices)
            /\ stats' = [stats EXCEPT !.firstErr = IF attempt = 1 THEN err ELSE @]
            /\ UNCHANGED <<sent, lastAuth>>
    /\ UNCHANGED <<api, attempt, roomsCycle, devicesCycle>>

\* The awaited gather returns both replies: they are processed at once.
GatherReturns(rr, dr) ==
    LET p == ProcessReplies(rooms, devices, rr, dr)
    IN  /\ roomsTask' = Done(rr) /\ devicesTask' = Done(dr)
        /\ roomsCycle' = IF p.stage \in {"none", "devices_shape"}
                         THEN cycleNo ELSE roomsCycle
        /\ devicesCycle' = IF p.stage = "none" THEN cycleNo ELSE devicesCycle
        /\ IF p.stage = "none"
           THEN ReturnFromCycle(p.rooms, p.devices)
           ELSE RaiseFromCycle("UpdateFailed", p.stage, p.err, p.rooms, p.devices)
        /\ UNCHANGED <<api, attempt, stats, sent, lastAuth>>

\* get_rooms() of the awaited gather is answered.
RoomsReply ==
    /\ pc = "fetching" /\ roomsTask.st = "inflight"
    /\ \E reply \in RoomsReplies :
         LET out == MakeRequest(reply, FALSE)
         IN  IF ~out.ok THEN GatherRaises(out.err, "rooms", devicesTask)
             ELSE IF devicesTask.st = "ok" THEN GatherReturns(out.result, devicesTask)
             ELSE /\ roomsTask' = Done(out.result)
                  /\ UNCHANGED <<api, snapVars, pc, authPhase, attempt, devicesTask,
                                 outcome, failStage, failErr, stats,
                                 sent, lastAuth>>
    /\ UNCHANGED <<hassVars, startVars, cmdVars, mrVars, climateVars, flowVars>>

\* get_devices() of the awaited gather is answered.
DevicesReply ==
    /\ pc = "fetching" /\ devicesTask.st = "inflight"
    /\ \E reply \in DevicesReplies :
         LET out == MakeRequest(reply, FALSE)
         IN  IF ~out.ok THEN GatherRaises(out.err, "devices", roomsTask)
             ELSE IF roomsTask.st = "ok" THEN GatherReturns(roomsTask, out.result)
             ELSE /\ devicesTask' = Done(out.result)
                  /\ UNCHANGED <<api, snapVars, pc, authPhase, attempt, roomsTask,
                                 outcome, failStage, failErr, stats,
                                 sent, lastAuth>>
    /\ UNCHANGED <<hassVars, startVars, cmdVars, mrVars, climateVars, flowVars>>

\* A fetch of a gather that already raised is answered: nobody awaits it.
AbandonedReply ==
    /\ \/ /\ roomsTask.st = "abandoned"
          /\ roomsTask' = [roomsTask EXCEPT !.st = "dropped"]
          /\ UNCHANGED devicesTask
       \/ /\ devicesTask.st = "abandoned"
          /\ devicesTask' = [devicesTask EXCEPT !.st = "dropped"]
          /\ UNCHANGED roomsTask
    /\ UNCHANGED <<api, snapVars, hassVars, pc, authPhase, attempt, outcome,
                   failStage, failErr, stats, sent, lastAuth, startVars,
                   cmdVars, mrVars, climateVars, flowVars>>

(* ------------------------- setup of a config entry --------------------- *)
\* Mutant: the first refresh is run with async_refresh(), which only logs.
FirstRefreshNeverRaises(outc) == FALSE

\* `await coordinator.async_config_entry_first_refresh()` raises unless the
\* first cycle returned a snapshot.
FirstRefreshRaises(outc) == outc # "success"

\* async_setup_entry: a new coordinator (and client) is built and its first
\* refresh cycle starts.
SetupStart ==
    /\ setup \in {"not_loaded", "failed"}
    /\ setup' = "first_refresh"
    /\ api' = FreshAPI
    /\ roomsCycle' = 0 /\ devicesCycle' = 0
    /\ EnterCycle(FreshAPI, EmptyMap, EmptyMap, "none", NoReplies, 1)
    /\ cmdPc' = "idle" /\ cmd' = NoCmd
    /\ UNCHANGED <<registered, entities, mrVars, climateVars, flowVars>>

\* async_setup_entry after the first refresh: the coordinator is stored in
\* hass.data and the climate platform creates one entity per room; or the
\* first refresh raised and the setup fails.
SetupFinish ==
    /\ setup = "first_refresh" /\ pc = "done"
    /\ IF FirstRefreshRaises(outcome)
       THEN /\ setup' = "failed"
            /\ UNCHANGED <<registered, entities>>
       ELSE /\ setup' = "loaded"
            /\ registered' = TRUE
            /\ entities' = DOMAIN rooms
    /\ UNCHANGED <<api, snapVars, ctlVars, startVars, cmdVars, mrVars, climateVars, flowVars>>

\* A steady-state refresh cycle starts: the poll interval elapsed or a
\* refresh was requested.
CycleStart ==
    /\ setup = "loaded" /\ pc = "done"
    /\ cycleNo < MaxCycles
    /\ EnterCycle(api, rooms, devices, outcome,
                  IF outcome = "success"
                  THEN [rooms |-> roomsTask.items, devices |-> devicesTask.items]
                  ELSE NoReplies,
                  cycleNo + 1)
    /\ UNCHANGED <<api, roomsCycle, devicesCycle, hassVars, cmdVars, mrVars, climateVars, flowVars>>

(* --------------------- set_temperature / set_mode ---------------------- *)
\* Mutant: the refresh is requested in a `finally`.
AfterCommandAlwaysRefresh(c, out) ==
    [c EXCEPT !.refreshed = TRUE, !.err = out.err, !.callOk = out.ok]

\* Mutant: the exception is logged and not raised again.
AfterCommandSwallow(c, out) ==
    [c EXCEPT !.refreshed = out.ok, !.err = NoErr, !.callOk = out.ok]

\* What the coordinator's command method does once the API call is over:
\* `await self.api.set_...(); await self.async_request_refresh()` inside
\* `try`, `except Exception: log; raise`.
AfterCommand(c, out) ==
    [c EXCEPT !.refreshed = out.ok, !.err = out.err, !.callOk = out.ok]

\* coordinator.set_temperature / set_mode is called by an entity: the
\* request is built (reading self.property_id) and sent.
CommandStart ==
    /\ setup = "loaded" /\ entities # {}
    /\ cmdPc # "inflight"
    /\ \E op \in {"SetTemperature", "SetMode"} :
         IF api.property_id = 0
         THEN /\ cmdPc' = "done"
              /\ cmd' = AfterCommand(NoCmd, Raised(Err("AttributeError", NoText)))
              /\ sent' = sent
         ELSE /\ cmdPc' = "inflight"
              /\ cmd' = [NoCmd EXCEPT !.sends = 1]
              /\ sent' = Wire(op, api)
    /\ UNCHANGED <<api, snapVars, hassVars, pc, authPhase, attempt, roomsTask,
                   devicesTask, outcome, failStage, failErr, stats,
                   lastAuth, startVars, mrVars, climateVars, flowVars>>

\* Mutant: a command that succeeded writes the value it set into the rooms
\* it holds, without waiting for the refresh.
CommandReplyOptimistic ==
    /\ cmdPc = "inflight"
    /\ \E reply \in CommandReplies :
         LET out == MakeRequest(reply, FALSE)
             c == AfterCommand(cmd, out)
         IN  /\ cmd' = c
             /\ rooms' = IF out.ok
                         THEN [k \in DOMAIN rooms |-> [rooms[k] EXCEPT !.temp = 21]]
                         ELSE rooms
    /\ cmdPc' = "done"
    /\ UNCHANGED <<api, devices, roomsCycle, devicesCycle, hassVars, ctlVars,
                   startVars, mrVars, climateVars, flowVars>>

\* The command's request is answered.
CommandReply ==
    /\ cmdPc = "inflight"
    /\ \E reply \in CommandReplies :
         LET out == MakeRequest(reply, FALSE)
             c == AfterCommand(cmd, out)
         IN  cmd' = c
    /\ cmdPc' = "done"
    /\ UNCHANGED <<api, snapVars, hassVars, ctlVars, startVars, mrVars, climateVars, flowVars>>

(* ------------------------------ climate.py ----------------------------- *)
\* coordinator.set_mode(mode), called by an entity: api.set_heating_mode
\* builds the request (reading self.property_id) and sends it.
CoordinatorSetMode(mode) ==
    /\ modeSent' = mode
    /\ IF api.property_id = 0
       THEN /\ cmdPc' = "done"
            /\ cmd' = AfterCommand(NoCmd, Raised(Err("AttributeError", NoText)))
            /\ sent' = sent
       ELSE /\ cmdPc' = "inflight"
            /\ cmd' = [NoCmd EXCEPT !.sends = 1]
            /\ sent' = Wire("SetMode", api)

\* TikoClimate.async_set_hvac_mode(hvac_mode)
ClimateSetHvacMode ==
    /\ setup = "loaded" /\ entities # {}
    /\ cmdPc # "inflight"
    /\ \E hvac_mode \in HVACModes :
         LET tiko_mode == Get(TIKO_MODE_MAP, hvac_mode)
         IN  /\ call' = [handler |-> "async_set_hvac_mode", arg |-> hvac_mode]
             /\ IF tiko_mode # None
                THEN CoordinatorSetMode(tiko_mode)
                ELSE UNCHANGED <<modeSent, cmdPc, cmd, sent>>
    /\ UNCHANGED <<api, snapVars, hassVars, pc, authPhase, attempt, roomsTask,
                   devicesTask, outcome, failStage, failErr, stats,
                   lastAuth, startVars, mrVars, flowVars>>

\* TikoClimate.async_set_preset_mode(preset_mode)
ClimateSetPresetMode ==
    /\ setup = "loaded" /\ entities # {}
    /\ cmdPc # "inflight"
    /\ \E preset_mode \in PresetModes :
         /\ call' = [handler |-> "async_set_preset_mode", arg |-> preset_mode]
         /\ IF preset_mode = "eco" THEN CoordinatorSetMode("frost")
            ELSE IF preset_mode = "away" THEN CoordinatorSetMode("absence")
            ELSE CoordinatorSetMode("faux")
    /\ UNCHANGED <<api, snapVars, hassVars, pc, authPhase, attempt, roomsTask,
                   devicesTask, outcome, failStage, failErr, stats,
                   lastAuth, startVars, mrVars, flowVars>>

\* A config entry set up by async_setup_entry: the first refresh logged in
\* (token t), fetched the rooms rl and the devices dl, and the platform
\* created one entity per room.
LoadedEntry(t, rl, dl) ==
    LET a == [token |-> t, user_id |-> 1, property_id |-> 1, authorization |-> t]
    IN  /\ api = a
        /\ rooms = ToMap(rl) /\ devices = ToMap(dl)
        /\ roomsCycle = 1 /\ devicesCycle = 1
        /\ registered = TRUE /\ entities = DOMAIN ToMap(rl) /\ setup = "loaded"
        /\ pc = "done" /\ authPhase = "none" /\ attempt = 1
        /\ roomsTask = [st |-> "ok", shape |-> "ok", items |-> rl]
        /\ devicesTask = [st |-> "ok", shape |-> "ok", items |-> dl]
        /\ outcome = "success" /\ failStage = "none" /\ failErr = NoErr
        /\ stats = [NoStats EXCEPT !.authCalls = 1, !.roomsCalls = 1,
                                   !.devicesCalls = 1]
        /\ sent = Wire("GetDevices", a)
        /\ lastAuth = [NoAuth EXCEPT !.done = TRUE]
        /\ cycleNo = 1 /\ startRooms = EmptyMap /\ startDevices = EmptyMap
        /\ startToken = 0
        /\ prevOutcome = "none" /\ prevReplies = NoReplies
        /\ cmdPc = "idle" /\ cmd = NoCmd
        /\ mrReply = BaseReply /\ mrPriming = FALSE /\ mrOut = Returned(BaseReply)
        /\ call = NoCall /\ modeSent = None
        /\ flowPc = "idle" /\ flowApi = FreshAPI
        /\ flowReply = BaseReply /\ flowResult = NoResult

\* the entities of a loaded entry, for every session and snapshot the first
\* refresh may have produced
InitClimate ==
    \E t \in Tokens, rl \in RoomLists \ {<<>>}, dl \in DeviceLists :
        LoadedEntry(t, rl, dl)

(* ---------------------------- config_flow.py ---------------------------- *)
\* what the service may answer the config flow: any error list
FlowLoginReplies ==
    TransportReplies \cup ErrorRepliesOf(ErrLists) \cup LoginDataReplies
FlowRoomsReplies ==
    TransportReplies \cup ErrorRepliesOf(ErrLists) \cup MalformedReplies
    \cup RoomsDataReplies

\* `return success, error`
Result(success, error) == [success |-> success, error |-> error]

\* `except Exception: return False, "unknown"`
FlowUnknown == Result(FALSE, "unknown")

\* _test_credentials once get_rooms() returned `result`
TestResult(result) ==
    IF result.hasErrors
    THEN IF result.errors = <<>> THEN FlowUnknown
         ELSE LET error_msg == result.errors[1]
              IN  IF Contains(error_msg, "RL") THEN Result(FALSE, "rate_limit")
                  ELSE IF Contains(error_msg, "IC")
                  THEN Result(FALSE, "invalid_auth")
                  ELSE Result(FALSE, "cannot_connect")
    ELSE IF ~(result.shape = "ok" /\ result.items # <<>>)
    THEN Result(FALSE, "no_rooms")
    ELSE Result(TRUE, None)

\* async_step_user received the form: _test_credentials builds a client and
\* calls authenticate(), whose priming GET goes out.
FlowStart ==
    /\ flowPc \in {"idle", "done"}
    /\ flowPc = "done" => ~flowResult.success
    /\ flowPc' = "auth_get"
    /\ flowApi' = FreshAPI
    /\ flowReply' = BaseReply
    /\ flowResult' = NoResult
    /\ UNCHANGED <<api, snapVars, hassVars, ctlVars, startVars, cmdVars,
                   mrVars, climateVars>>

\* the priming GET is answered
FlowAuthGetReply ==
    /\ flowPc = "auth_get"
    /\ \E reply \in PrimingReplies :
         LET out == MakeRequest(reply, TRUE)
         IN  /\ flowReply' = reply
             /\ IF out.ok
                THEN flowPc' = "auth_post" /\ flowResult' = flowResult
                ELSE flowPc' = "done" /\ flowResult' = FlowUnknown
    /\ UNCHANGED <<flowApi, api, snapVars, hassVars, ctlVars, startVars,
                   cmdVars, mrVars, climateVars>>

\* the login POST is answered; on success get_rooms() is sent
FlowAuthPostReply ==
    /\ flowPc = "auth_post"
    /\ \E reply \in FlowLoginReplies :
         LET out == MakeRequest(reply, FALSE)
             la == LoginApply(flowApi, out.result)
         IN  /\ flowReply' = reply
             /\ IF ~out.ok
                THEN /\ flowPc' = "done" /\ flowResult' = FlowUnknown
                     /\ flowApi' = flowApi
                ELSE /\ flowApi' = la.api
                     /\ IF la.err # NoErr
                        THEN flowPc' = "done" /\ flowResult' = FlowUnknown
                        ELSE flowPc' = "rooms" /\ flowResult' = flowResult
    /\ UNCHANGED <<api, snapVars, hassVars, ctlVars, startVars, cmdVars,
                   mrVars, climateVars>>

\* get_rooms() is answered and _test_credentials returns
FlowRoomsReply ==
    /\ flowPc = "rooms"
    /\ \E reply \in FlowRoomsReplies :
         LET out == MakeRequest(reply, FALSE)
         IN  /\ flowReply' = reply
             /\ flowResult' = IF out.ok THEN TestResult(out.result)
                              ELSE FlowUnknown
    /\ flowPc' = "done"
    /\ UNCHANGED <<flowApi, api, snapVars, hassVars, ctlVars, startVars,
                   cmdVars, mrVars, climateVars>>

(* --------------------------- _make_request alone ----------------------- *)
\* _make_request applied to any reply.
ApplyMakeRequest ==
    /\ \E reply \in AllReplies, priming \in BOOLEAN :
         /\ mrReply' = reply
         /\ mrPriming' = priming
         /\ mrOut' = MakeRequest(reply, priming)
    /\ UNCHANGED <<api, snapVars, hassVars, ctlVars, startVars,
                   cmdVars, climateVars, flowVars>>

(* ---------------------------- specifications --------------------------- *)
Next ==
    \/ SetupStart
    \/ SetupFinish
    \/ CycleStart
    \/ AuthGetReply
    \/ AuthPostReply
    \/ RoomsReply
    \/ DevicesReply
    \/ AbandonedReply
    \/ CommandStart
    \/ CommandReply

Spec == Init /\ [][Next]_vars

NextMakeRequest == ApplyMakeRequest

\* Every request of a cycle returns or fails: a reply that is awaited
\* arrives.
RepliesArrive ==
    /\ WF_vars(AuthGetReply)
    /\ WF_vars(AuthPostReply)
    /\ WF_vars(RoomsReply)
    /\ WF_vars(DevicesReply)

\* the refresh cycles of the coordinators of a config entry, without the
\* commands of its entities
NextCycle ==
    \/ SetupStart
    \/ SetupFinish
    \/ CycleStart
    \/ AuthGetReply
    \/ AuthPostReply
    \/ RoomsReply
    \/ DevicesReply
    \/ AbandonedReply

SpecCycles == Init /\ [][NextCycle]_vars /\ RepliesArrive

SpecMakeRequest == Init /\ [][NextMakeRequest]_vars

\* the service calls on the entities of a loaded entry
NextClimate ==
    \/ ClimateSetHvacMode
    \/ ClimateSetPresetMode
    \/ CommandReply

SpecClimate == InitClimate /\ [][NextClimate]_vars

\* the credential test of the config flow
NextConfigFlow ==
    \/ FlowStart
    \/ FlowAuthGetReply
    \/ FlowAuthPostReply
    \/ FlowRoomsReply

SpecConfigFlow == Init /\ [][NextConfigFlow]_vars

(* -------------------------------- claims ------------------------------- *)
CycleDone == pc = "done"

\* C1. Retained on failure: when the cycle that follows a successful cycle
\* fails because a fetch or the re-authentication raised, coordinator.rooms
\* and coordinator.devices are still the maps the successful cycle left.
RetainedOnFailure ==
    (/\ CycleDone
     /\ prevOutcome = "success"
     /\ outcome = "UpdateFailed"
     /\ failStage \in {"fetch1", "fetch2", "reauth"})
    => (rooms = startRooms /\ devices = startDevices)

\* a cycle after a successful one, failed by a dropped connection, with a
\* non-empty snapshot kept
RetainedOnFailureWitness ==
    /\ CycleDone
    /\ prevOutcome = "success"
    /\ outcome = "UpdateFailed"
    /\ failStage = "fetch1"
    /\ failErr.type = "ClientConnectionError"
    /\ startRooms # EmptyMap /\ startDevices # EmptyMap
    /\ rooms = startRooms /\ devices = startDevices

\* C2. Atomicity: in every state coordinator.rooms and coordinator.devices
\* were assigned by the same refresh cycle.
SnapshotFromOneCycle == roomsCycle = devicesCycle

\* the first gather of the cycle raised an error whose text contains
\* "Authentication failed"
FirstFetchExpired == Contains(StrOf(stats.firstErr), "AF")
\* the login of the recovery returned
ReloginSucceeded == lastAuth.done /\ failStage # "reauth"
\* both fetches of the last gather returned the collection asked for
RetriedFetchesSucceeded ==
    /\ roomsTask.st = "ok" /\ roomsTask.shape = "ok"
    /\ devicesTask.st = "ok" /\ devicesTask.shape = "ok"

\* C3. Retry once: when the first gather of a cycle raises an error whose
\* text contains "Authentication failed", authenticate is called exactly
\* once in the recovery; when that login succeeds each fetch is called
\* exactly once more; and when both retried fetches return the collection
\* asked for, the cycle succeeds with the maps built from those replies.
RetryOnce ==
    FirstFetchExpired =>
        /\ stats.reauthCalls = 1
        /\ (CycleDone /\ ReloginSucceeded) =>
              (stats.roomsCalls = 2 /\ stats.devicesCalls = 2)
        /\ (CycleDone /\ ReloginSucceeded /\ RetriedFetchesSucceeded) =>
              /\ outcome = "success"
              /\ rooms = ToMap(roomsTask.items)
              /\ devices = ToMap(devicesTask.items)

\* a cycle that recovered from an expired token and replaced the snapshot
RetryOnceWitness ==
    /\ CycleDone
    /\ FirstFetchExpired
    /\ ReloginSucceeded /\ RetriedFetchesSucceeded
    /\ outcome = "success"
    /\ stats.reauthCalls = 1 /\ stats.roomsCalls = 2
    /\ rooms # startRooms

\* C4. A cycle that starts without a token authenticates before anything
\* else; when that authenticate fails the cycle ends with
\* ConfigEntryAuthFailed, no fetch was called and the maps are unchanged.
NoSessionAuthenticatesFirst ==
    /\ (startToken = 0 /\ pc # "idle") =>
          stats.authCalls - stats.reauthCalls = 1
    /\ (startToken = 0 /\ stats.roomsCalls + stats.devicesCalls > 0) =>
          (HasToken(api) /\ failStage # "auth")
    /\ (CycleDone /\ failStage = "auth") =>
          /\ startToken = 0
          /\ outcome = "ConfigEntryAuthFailed"
          /\ stats.roomsCalls = 0 /\ stats.devicesCalls = 0
          /\ roomsTask.st = "none" /\ devicesTask.st = "none"
          /\ rooms = startRooms /\ devices = startDevices

\* a cycle without a token whose login was refused
NoSessionAuthenticatesFirstWitness ==
    /\ CycleDone
    /\ startToken = 0
    /\ failStage = "auth"
    /\ failErr.type = "TikoAuthenticationError"
    /\ outcome = "ConfigEntryAuthFailed"

\* nothing is registered and no entity exists unless the entry is loaded
FirstRefreshInv ==
    /\ registered => setup = "loaded"
    /\ entities # {} => registered
    /\ setup \in {"first_refresh", "failed"} => (~registered /\ entities = {})

\* registering, and creating entities, is a step taken at the end of a
\* successful first refresh cycle
RegisteredOnlyAfterSuccess ==
    (registered' /\ (~registered \/ entities' # entities)) =>
        (setup = "first_refresh" /\ cycleNo = 1 /\ CycleDone /\ outcome = "success")

\* the step taken at the end of a failed first refresh fails the setup
FirstRefreshFailureFailsSetup ==
    (setup = "first_refresh" /\ CycleDone /\ outcome # "success"
     /\ setup' # setup) => setup' = "failed"

\* C5. First-refresh contract: the coordinator is registered and the
\* entities are created only after the first refresh cycle has succeeded;
\* when the first refresh fails the setup fails, nothing is registered and
\* no entity is created.
FirstRefreshContract ==
    /\ []FirstRefreshInv
    /\ [][RegisteredOnlyAfterSuccess]_vars
    /\ [][FirstRefreshFailureFailsSetup]_vars

\* the entry is loaded, straight after the first refresh
FirstRefreshContractWitness ==
    /\ setup = "loaded" /\ registered /\ entities # {}
    /\ cycleNo = 1 /\ outcome = "success"

\* C7, as stated. Once the command's request was sent, a refresh is
\* requested whatever the outcome of the call.
CommandAlwaysRefreshes ==
    (cmdPc = "done" /\ cmd.sends > 0) => cmd.refreshed

\* C7, amended. A command sends its request once; a refresh is requested
\* when the call returned, and is not requested when the call raised.
CommandRefreshesOnSuccess ==
    cmdPc = "done" =>
        /\ cmd.refreshed <=> cmd.callOk
        /\ cmd.callOk => cmd.sends = 1

\* a command whose call returned and which requested the refresh
CommandRefreshesOnSuccessWitness ==
    cmdPc = "done" /\ cmd.callOk /\ cmd.refreshed /\ cmd.sends = 1

\* a command sends at most one request, and raises when its call failed
CommandFailureInv ==
    /\ cmd.sends \in {0, 1}
    /\ (cmdPc = "done" /\ ~cmd.callOk) => cmd.err # NoErr

\* the end of a command sends nothing more and leaves the client, the
\* session and the refresh cycle alone
CommandEndsWithoutRetry ==
    (cmdPc = "inflight" /\ cmdPc' # "inflight") =>
        /\ cmdPc' = "done"
        /\ cmd'.sends = cmd.sends
        /\ api' = api /\ stats' = stats /\ sent' = sent /\ pc' = pc

\* C8. A failed API call of set_temperature or set_mode (an expired token
\* included) is raised to the caller; the command is sent at most once:
\* the coordinator neither retries it nor authenticates again for it.
CommandFailureSurfaced ==
    /\ []CommandFailureInv
    /\ [][CommandEndsWithoutRetry]_vars

\* a command refused for an expired token: raised, sent once
CommandFailureSurfacedWitness ==
    /\ cmdPc = "done" /\ ~cmd.callOk
    /\ Contains(StrOf(cmd.err), "AF")
    /\ cmd.sends = 1 /\ ~cmd.refreshed

\* C9. A login reply with zero properties makes authenticate fail with an
\* authentication error and leaves the client as it was before the call.
ZeroPropertiesNoSession ==
    (lastAuth.done /\ lastAuth.zeroProps) =>
        /\ failErr.type = "TikoAuthenticationError"
        /\ api = lastAuth.before

\* the reply is decoded: a 2xx JSON reply to a request other than the
\* priming GET
MrDecoded == mrReply.net /\ mrReply.ok2xx /\ mrReply.json /\ ~mrPriming

\* C10. Error classification of _make_request, for the requests whose
\* reply is decoded (every request but the priming GET): a reply with an
\* error list is never returned; when the reply is a JSON reply with a
\* 2xx status, its first message decides the exception: rate limit before
\* credentials, else a client error carrying the message.
ErrorClassification ==
    /\ (mrReply.hasErrors /\ ~mrPriming) => ~mrOut.ok
    /\ mrOut.ok => mrOut.err = NoErr
    /\ (MrDecoded /\ mrReply.hasErrors /\ mrReply.errors # <<>>) =>
          LET msg == mrReply.errors[1]
          IN  /\ Contains(msg, "RL") =>
                    mrOut.err = Err("TikoRateLimitError", msg)
              /\ (~Contains(msg, "RL") /\ Contains(msg, "IC")) =>
                    mrOut.err = Err("TikoAuthenticationError", msg)
              /\ (~Contains(msg, "RL") /\ ~Contains(msg, "IC")) =>
                    mrOut.err = Err("ClientError", msg)

\* a rate-limit message that also speaks of invalid credentials
ErrorClassificationWitness ==
    /\ MrDecoded /\ mrReply.hasErrors /\ mrReply.errors # <<>>
    /\ Contains(mrReply.errors[1], "RL") /\ Contains(mrReply.errors[1], "IC")
    /\ mrOut.err.type = "TikoRateLimitError"

\* C11. A rate-limited login is surfaced distinctly from a rejected one: a
\* cycle whose first authenticate failed with the rate-limit error does not
\* end with ConfigEntryAuthFailed, the outcome of a cycle whose login was
\* rejected for invalid credentials.
RateLimitSurfacedDistinctly ==
    (CycleDone /\ failStage = "auth" /\ failErr.type = "TikoRateLimitError")
        => outcome # "ConfigEntryAuthFailed"

\* the service vocabulary of setMode
ServiceModes == {"normal", "off", "frost", "absence"}

\* C12. Every mode the climate entity passes to coordinator.set_mode, from
\* async_set_hvac_mode and from async_set_preset_mode, is one of the service
\* modes normal, off, frost, absence.
ModeTokensInVocabulary ==
    (call.handler # "none" /\ modeSent # None) => modeSent \in ServiceModes

\* the keys and the values of a dict
Keys(d) == DOMAIN d
Values(d) == {d[k] : k \in DOMAIN d}

\* C13. Mode mapping round trip: HA_MODE_MAP maps its four service modes one
\* to one onto {heat, off, eco, away}, TIKO_MODE_MAP is its exact inverse
\* (frost <-> eco), and the mode async_set_hvac_mode sends maps back to the
\* HVAC mode it was called with.
ModeMapRoundTrip ==
    /\ Cardinality(Keys(HA_MODE_MAP)) = 4
    /\ Values(HA_MODE_MAP) = {"heat", "off", "eco", "away"}
    /\ Keys(TIKO_MODE_MAP) = Values(HA_MODE_MAP)
    /\ Values(TIKO_MODE_MAP) = Keys(HA_MODE_MAP)
    /\ \A m \in Keys(HA_MODE_MAP) : Get(TIKO_MODE_MAP, Get(HA_MODE_MAP, m)) = m
    /\ \A h \in Keys(TIKO_MODE_MAP) : Get(HA_MODE_MAP, Get(TIKO_MODE_MAP, h)) = h
    /\ Get(HA_MODE_MAP, MODE_FROST) = "eco" /\ Get(TIKO_MODE_MAP, "eco") = MODE_FROST
    /\ (call.handler = "async_set_hvac_mode" /\ cmdPc = "inflight") =>
          Get(HA_MODE_MAP, modeSent) = call.arg

\* async_set_hvac_mode(heat) sent the mode that maps back to heat
ModeMapRoundTripWitness ==
    /\ call = [handler |-> "async_set_hvac_mode", arg |-> "heat"]
    /\ cmdPc = "inflight" /\ sent.op = "SetMode"
    /\ modeSent = MODE_NORMAL
    /\ Get(HA_MODE_MAP, modeSent) = "heat"

\* the server answered this cycle as it answered the previous one
SameRepliesAsBefore ==
    /\ roomsTask.items = prevReplies.rooms
    /\ devicesTask.items = prevReplies.devices

\* every key of the map is the string form of the id of its item
KeyedById(m) == \A k \in DOMAIN m : k = ToString(m[k].id)

\* C14. Idempotence of refresh: when two consecutive cycles succeed and the
\* second is answered the same rooms and devices as the first, the maps
\* after the second cycle are the maps after the first; the keys of both
\* maps are the string forms of the ids of their items.
RefreshIdempotent ==
    (CycleDone /\ outcome = "success") =>
        /\ KeyedById(rooms) /\ KeyedById(devices)
        /\ (prevOutcome = "success" /\ SameRepliesAsBefore) =>
              (rooms = startRooms /\ devices = startDevices)

\* a second successful cycle answered the same two rooms and the same device
RefreshIdempotentWitness ==
    /\ CycleDone /\ outcome = "success" /\ prevOutcome = "success"
    /\ cycleNo = 2
    /\ SameRepliesAsBefore
    /\ Len(roomsTask.items) = 2 /\ devicesTask.items # <<>>
    /\ rooms = startRooms /\ devices = startDevices
    /\ Cardinality(DOMAIN rooms) = 2

\* the requests for a resource, as opposed to those of authenticate()
ResourceOps == {"GetRooms", "GetDevices", "SetTemperature", "SetMode"}

\* C15. Every resource request on the wire carries the Authorization header
\* of the client's current session token, after any sequence of successful
\* and failed authenticate calls.
ResourceRequestsCarryToken ==
    sent.op \in ResourceOps => (sent.token # 0 /\ sent.auth = sent.token)

\* the cycle failed on a rooms or devices reply without the data/property
\* nesting
MalformedReplyFailure ==
    /\ CycleDone
    /\ \/ failStage = "rooms_shape" /\ ~WellNested(roomsTask)
       \/ failStage = "devices_shape" /\ ~WellNested(devicesTask)

\* C16. A rooms or devices reply without the data/property nesting makes the
\* cycle fail with UpdateFailed and leaves both coordinator.rooms and
\* coordinator.devices as they were when the cycle started, whichever of
\* the two replies is the malformed one.
MalformedReplyRetainsSnapshot ==
    MalformedReplyFailure =>
        /\ outcome = "UpdateFailed"
        /\ rooms = startRooms /\ devices = startDevices

\* the cycle failed in its recovery from an expired token: the second
\* authenticate raised, or a fetch of the second gather raised
RecoveryFailed == CycleDone /\ failStage \in {"reauth", "fetch2"}

\* C17. A failure after the retry is a hard cycle failure: when the
\* re-authentication or a retried fetch raises, the cycle ends with
\* UpdateFailed (not ConfigEntryAuthFailed), it authenticated again once and
\* called each fetch at most twice, and both maps are as they were when the
\* cycle started.
RetryFailureIsHard ==
    /\ (stats.reauthCalls <= 1 /\ stats.roomsCalls <= 2 /\ stats.devicesCalls <= 2)
    /\ RecoveryFailed =>
          /\ FirstFetchExpired
          /\ outcome = "UpdateFailed"
          /\ stats.reauthCalls = 1
          /\ stats.roomsCalls = (IF failStage = "reauth" THEN 1 ELSE 2)
          /\ stats.devicesCalls = stats.roomsCalls
          /\ rooms = startRooms /\ devices = startDevices

\* a retried fetch was refused again with "Authentication failed": no third
\* attempt, a non-empty snapshot kept
RetryFailureIsHardWitness ==
    /\ RecoveryFailed /\ failStage = "fetch2"
    /\ TokenExpired(failErr)
    /\ outcome = "UpdateFailed"
    /\ stats.reauthCalls = 1 /\ stats.roomsCalls = 2
    /\ rooms = startRooms /\ rooms # EmptyMap

\* C18. The stale session is invalidated before the re-authentication: when
\* the re-authentication fails the client holds no token, so that the next
\* cycle starts by authenticating.
StaleSessionInvalidated ==
    (CycleDone /\ failStage = "reauth") => ~HasToken(api)

\* a fetch of a gather that already raised and is still unanswered
StillInFlight(task) == task.st = "abandoned"

\* C19. The cycle waits for both fetches of a gather: it neither starts the
\* re-authentication nor ends while a fetch of the attempt is in flight.
GatherWaitsForBoth ==
    pc \in {"auth_get", "auth_post", "done"} =>
        (~StillInFlight(roomsTask) /\ ~StillInFlight(devicesTask))

\* C20. Every cycle ends in exactly one of a returned snapshot,
\* ConfigEntryAuthFailed and UpdateFailed.  ConfigEntryAuthFailed is the end
\* of the cycles whose authenticate in the no-token branch failed, and of
\* no other; every other failure (of a fetch, of the re-authentication, of
\* a reply's shape) ends as UpdateFailed.
CycleOutcomes ==
    CycleDone =>
        /\ outcome \in {"success", "ConfigEntryAuthFailed", "UpdateFailed"}
        /\ outcome = "success" <=> (failStage = "none" /\ failErr = NoErr)
        /\ outcome = "ConfigEntryAuthFailed" <=> failStage = "auth"
        /\ failStage = "auth" =>
              (startToken = 0 /\ stats.authCalls = 1 /\ stats.reauthCalls = 0)
        /\ failStage \in {"fetch1", "reauth", "fetch2", "rooms_shape",
                          "devices_shape"} => outcome = "UpdateFailed"

\* a rate-limited re-authentication ended the cycle with UpdateFailed
CycleOutcomesWitness ==
    /\ CycleDone /\ failStage = "reauth"
    /\ failErr.type = "TikoRateLimitError"
    /\ outcome = "UpdateFailed"

\* C21. Handshake order and credentials: in every authenticate call, the
\* first and the re-authentication alike, the priming GET precedes the login
\* POST and carries no bearer token; the login POST is sent only after the
\* priming GET succeeded.
PrimingGetUnauthenticated ==
    /\ sent.op = "GET" => sent.auth = 0
    /\ pc = "auth_post" => (lastAuth.before = api /\ ~lastAuth.done)

\* the config flow was answered an application-level error: a decoded reply
\* with a non-empty error list
FlowAppError ==
    /\ flowPc = "done"
    /\ flowReply.net /\ flowReply.ok2xx /\ flowReply.json
    /\ flowReply.hasErrors /\ flowReply.errors # <<>>

\* C22. Credential test of the config flow: an application error of the
\* login or rooms request whose message contains "Limite de taux atteinte"
\* gives (False, "rate_limit"), one that contains "Invalid credentials"
\* gives (False, "invalid_auth"), any other gives (False, "cannot_connect");
\* (True, None) is returned only when the login succeeded and the rooms
\* reply holds at least one room.
CredentialTestClassifies ==
    /\ FlowAppError =>
          LET msg == flowReply.errors[1]
          IN  flowResult =
                IF Contains(msg, "RL") THEN Result(FALSE, "rate_limit")
                ELSE IF Contains(msg, "IC") THEN Result(FALSE, "invalid_auth")
                ELSE Result(FALSE, "cannot_connect")
    /\ (flowPc = "done" /\ flowResult.success) =>
          /\ HasToken(flowApi)
          /\ flowReply.shape = "ok" /\ flowReply.items # <<>>

\* _async_update_data is running
InCycle == pc \in {"auth_get", "auth_post", "fetching"}

\* the fetches of the awaited gather that are unanswered
Pending ==
    (IF roomsTask.st = "inflight" THEN 1 ELSE 0)
    + (IF devicesTask.st = "inflight" THEN 1 ELSE 0)

\* the replies the cycle may still have to wait for
Rank ==
    IF pc = "auth_get" THEN (IF authPhase = "initial" THEN 8 ELSE 4)
    ELSE IF pc = "auth_post" THEN (IF authPhase = "initial" THEN 7 ELSE 3)
    ELSE IF pc = "fetching" THEN (IF attempt = 1 THEN 4 ELSE 0) + Pending
    ELSE 0

\* at most two authenticate calls, one of them a re-authentication, and at
\* most two calls of each fetch in a cycle
CallBounds ==
    /\ stats.authCalls <= 2 /\ stats.reauthCalls <= 1
    /\ stats.roomsCalls <= 2 /\ stats.devicesCalls <= 2

\* every step of a running cycle brings it nearer to its end
CycleAdvances ==
    (InCycle /\ <<pc, authPhase, attempt, Pending>>' # <<pc, authPhase, attempt, Pending>>)
        => Rank' < Rank

\* C23. Every refresh cycle ends after a bounded number of remote
\* operations, provided each request returns or fails: at most two
\* authenticate calls, two get_rooms and two get_devices calls; no step of
\* a cycle leads back to an earlier one; a running cycle ends.
CycleBounded ==
    /\ []CallBounds
    /\ [][CycleAdvances]_vars
    /\ (InCycle ~> CycleDone)

\* a cycle that used every call it may make: login, fetch, login, fetch
CycleBoundedWitness ==
    /\ CycleDone
    /\ stats.authCalls = 2 /\ stats.reauthCalls = 1
    /\ stats.roomsCalls = 2 /\ stats.devicesCalls = 2

\* a step of set_temperature or set_mode
CommandStep == cmdPc' # cmdPc \/ cmd' # cmd

\* a step that assigns the maps: the end of the gather of a refresh cycle,
\* or the construction of a new coordinator
CycleWrites ==
    \/ pc = "fetching" /\ pc' = "done" /\ cycleNo' = cycleNo
    \/ setup # "first_refresh" /\ setup' = "first_refresh"

\* C24. set_temperature and set_mode never modify coordinator.rooms or
\* coordinator.devices, whether they succeed or fail; the maps change only
\* in a refresh cycle.
CommandsLeaveSnapshot ==
    /\ [][CommandStep => (rooms' = rooms /\ devices' = devices)]_vars
    /\ [][(rooms' # rooms \/ devices' # devices) => CycleWrites]_vars

\* a command succeeded and the rooms are still those of the last fetch
CommandsLeaveSnapshotWitness ==
    /\ cmdPc = "done" /\ cmd.callOk /\ cmd.sends = 1
    /\ pc = "done" /\ outcome = "success"
    /\ rooms # EmptyMap /\ rooms = ToMap(roomsTask.items)
    /\ "1" \in DOMAIN rooms /\ rooms["1"].temp = 19

====
